---- MODULE Spec2Model ----
(***************************************************************************)
(* The cloudflare_teams_rule resource of the Terraform provider            *)
(* (internal/provider/resource_cloudflare_teams_rules.go): its five        *)
(* handlers (create, read, update, delete, import) run against an external *)
(* API client, the precedence encoding and the add_headers flatten/inflate *)
(* pair.                                                                   *)
(*                                                                         *)
(* Representation.  A Go string that the code takes apart (resource IDs,   *)
(* error messages, header values) is a sequence of one-character strings;  *)
(* a string the code only copies is a TLA+ string.  A nil-able value (an   *)
(* error, a pointer, a nil map) is a sequence of length 0 (nil) or 1.  A   *)
(* 64-bit integer is its two's-complement bit pattern, four 16-bit limbs,  *)
(* least significant first, so that Go's wrapping arithmetic is exact.     *)
(***************************************************************************)
EXTENDS Integers, Sequences, FiniteSets, TLC

VARIABLES d, last, hashOf, prec, hdr

vars == <<d, last, hashOf, prec, hdr>>

----------------------------------------------------------------------------
(* 64-bit integers (Go int, int64, uint64 on the 64-bit platforms).        *)

Base == 2^16

HalfBase == 2^15

\* A natural number below 2^31 as a 64-bit pattern.
FromNat(n) == <<n % Base, n \div Base, 0, 0>>

\* a + b, wrapping at 2^64.
Add64(a, b) ==
    LET s1 == a[1] + b[1]
        s2 == a[2] + b[2] + (s1 \div Base)
        s3 == a[3] + b[3] + (s2 \div Base)
        s4 == a[4] + b[4] + (s3 \div Base)
    IN  <<s1 % Base, s2 % Base, s3 % Base, s4 % Base>>

\* -a, wrapping at 2^64 (the minimum int64 is its own negation).
Neg64(a) ==
    Add64(<<Base - 1 - a[1], Base - 1 - a[2], Base - 1 - a[3], Base - 1 - a[4]>>,
          FromNat(1))

\* a - b, wrapping at 2^64.
Sub64(a, b) == Add64(a, Neg64(b))

\* a * k for a constant 0 <= k < 2^15, wrapping at 2^64.
Mul64(a, k) ==
    LET s1 == a[1] * k
        s2 == a[2] * k + (s1 \div Base)
        s3 == a[3] * k + (s2 \div Base)
        s4 == a[4] * k + (s3 \div Base)
    IN  <<s1 % Base, s2 % Base, s3 % Base, s4 % Base>>

\* The sign bit of the pattern read as an int64.
IsNeg64(a) == a[4] >= HalfBase

\* Quotient and remainder of the pattern read as an unsigned number, by a
\* constant 0 < k < 2^15 (long division, most significant limb first).
UDivMod64(a, k) ==
    LET q4 == a[4] \div k
        t3 == (a[4] % k) * Base + a[3]
        q3 == t3 \div k
        t2 == (t3 % k) * Base + a[2]
        q2 == t2 \div k
        t1 == (t2 % k) * Base + a[1]
        q1 == t1 \div k
    IN  [quo |-> <<q1, q2, q3, q4>>, rem |-> t1 % k]

\* Go's int64 division by a positive constant: the quotient truncates toward
\* zero.
Div64(a, k) ==
    IF IsNeg64(a) THEN Neg64(UDivMod64(Neg64(a), k).quo)
                  ELSE UDivMod64(a, k).quo

\* Go's int64 remainder by a positive constant: it has the dividend's sign.
Rem64(a, k) ==
    IF IsNeg64(a) THEN Neg64(FromNat(UDivMod64(Neg64(a), k).rem))
                  ELSE FromNat(UDivMod64(a, k).rem)

\* a < b, both read as int64.
Less64(a, b) ==
    LET ua == <<a[1], a[2], a[3], (a[4] + HalfBase) % Base>>
        ub == <<b[1], b[2], b[3], (b[4] + HalfBase) % Base>>
    IN  \/ ua[4] < ub[4]
        \/ ua[4] = ub[4] /\ ua[3] < ub[3]
        \/ ua[4] = ub[4] /\ ua[3] = ub[3] /\ ua[2] < ub[2]
        \/ ua[4] = ub[4] /\ ua[3] = ub[3] /\ ua[2] = ub[2] /\ ua[1] < ub[1]

\* The conversions int64(x) of a uint64 and uint64(x) of an int64 keep the
\* 64-bit pattern and change only how it is read.
ToUint64(a) == a

ToInt64(a) == a

RECURSIVE DecFrom(_, _)
DecFrom(acc, digits) ==
    IF digits = <<>> THEN acc
    ELSE DecFrom(Add64(Mul64(acc, 10), FromNat(Head(digits))), Tail(digits))

\* The non-negative 64-bit number written with these decimal digits.
Dec(digits) == DecFrom(FromNat(0), digits)

----------------------------------------------------------------------------
(* Precedence encoding.                                                    *)

rulePrecedenceFactor == 1000

\* Rule names: only copied and hashed.
RuleNames == {"allow-dns", "block-http"}

\* hashCodeString is defined outside the files at hand; it is a
\* deterministic function of the name with a non-negative int result, here
\* any function into these values (0, 1999 and the largest CRC-32).
HashValues ==
    {Dec(<<0>>), Dec(<<1, 9, 9, 9>>), Dec(<<4, 2, 9, 4, 9, 6, 7, 2, 9, 5>>)}

HashFuns == [RuleNames -> HashValues]

hashCodeString(s) == hashOf[s]

providerToApiRulePrecedence(provided, ruleName) ==
    Add64(Mul64(provided, rulePrecedenceFactor),
          Rem64(ToInt64(hashCodeString(ruleName)), rulePrecedenceFactor))

apiToProviderRulePrecedence(apiPrecedence, ruleName) ==
    Div64(Sub64(ToInt64(apiPrecedence),
                Rem64(ToInt64(hashCodeString(ruleName)), rulePrecedenceFactor)),
          rulePrecedenceFactor)

----------------------------------------------------------------------------
(* The precedence functions on their own: the value Create and Update send *)
(* (lines 91-96, 131-137) and the value Read stores (line 50).             *)

MaxSafe == Dec(<<9, 2, 2, 3, 3, 7, 2, 0, 3, 6, 8, 5, 4, 7, 7, 5>>)

\* Provided precedences (Terraform's TypeInt is a Go int): small ones, the
\* largest and smallest whose product with the factor fits an int64, their
\* neighbours, and the largest int64.
ProvidedValues ==
    {Dec(<<0>>), Dec(<<1>>), Dec(<<2>>), Dec(<<4, 2>>), Neg64(Dec(<<1>>)),
     MaxSafe, Add64(MaxSafe, FromNat(1)),
     Neg64(MaxSafe), Neg64(Add64(MaxSafe, FromNat(1))),
     <<Base - 1, Base - 1, Base - 1, HalfBase - 1>>}

PrecIdle == [pc |-> "idle"]

InitPrecedence ==
    /\ hashOf \in HashFuns
    /\ \E p1 \in ProvidedValues, p2 \in ProvidedValues,
          n1 \in RuleNames, n2 \in RuleNames :
          prec = [pc |-> "input", provided |-> p1, ruleName |-> n1,
                  provided2 |-> p2, ruleName2 |-> n2]
    /\ d = <<>>
    /\ last = <<>>
    /\ hdr = <<>>

\* The write path: the encoded precedences of two rules, each converted to
\* the uint64 of the API's rule.
Encode ==
    /\ prec.pc = "input"
    /\ prec' = [pc |-> "encoded", provided |-> prec.provided,
                ruleName |-> prec.ruleName,
                provided2 |-> prec.provided2, ruleName2 |-> prec.ruleName2,
                api |-> ToUint64(providerToApiRulePrecedence(
                                     prec.provided, prec.ruleName)),
                api2 |-> ToUint64(providerToApiRulePrecedence(
                                      prec.provided2, prec.ruleName2))]
    /\ UNCHANGED <<d, last, hashOf, hdr>>

\* The read path: the API's precedence of the first rule decoded with the
\* rule's name.
Decode ==
    /\ prec.pc = "encoded"
    /\ prec' = [pc |-> "decoded", provided |-> prec.provided,
                ruleName |-> prec.ruleName,
                provided2 |-> prec.provided2, ruleName2 |-> prec.ruleName2,
                api |-> prec.api, api2 |-> prec.api2,
                back |-> apiToProviderRulePrecedence(prec.api, prec.ruleName)]
    /\ UNCHANGED <<d, last, hashOf, hdr>>

NextPrecedence == Encode \/ Decode

SpecPrecedence == InitPrecedence /\ [][NextPrecedence]_vars

\* The provided precedences whose product with the factor fits an int64.
FitsFactor(p) ==
    /\ ~Less64(MaxSafe, p)
    /\ ~Less64(p, Neg64(MaxSafe))

\* C1: decoding inverts encoding: for every provided precedence and every
\* rule name, the precedence decoded from the encoded one is the provided one.
C1_DecodeInvertsEncode ==
    prec.pc = "decoded" => prec.back = prec.provided

\* Where the product fits, decoding does invert encoding.
C1_DecodeInvertsEncodeInRange ==
    (prec.pc = "decoded" /\ FitsFactor(prec.provided))
        => prec.back = prec.provided

\* C9: the encoding preserves the configured order whatever the names: of
\* two provided precedences the smaller has the smaller encoded value.
C9_EncodePreservesOrder ==
    (prec.pc = "encoded" /\ Less64(prec.provided, prec.provided2))
        => Less64(ToInt64(prec.api), ToInt64(prec.api2))

\* The name's offset hash % factor lies in 0 .. factor-1.
C9_OffsetInRange ==
    \A n \in RuleNames :
        LET r == Rem64(ToInt64(hashCodeString(n)), rulePrecedenceFactor)
        IN  ~IsNeg64(r) /\ Less64(r, FromNat(rulePrecedenceFactor))

----------------------------------------------------------------------------
(* Strings the code takes apart: sequences of one-character strings.       *)

\* strings.Index(s, c) for a one-character c, counted from 1; 0 when absent.
RECURSIVE IndexFrom(_, _, _)
IndexFrom(s, c, i) ==
    IF i > Len(s) THEN 0
    ELSE IF s[i] = c THEN i
    ELSE IndexFrom(s, c, i + 1)

\* strings.SplitN(s, sep, n) for a one-character sep and n # 0: at most n
\* pieces (all of them when n < 0), the last one the unsplit remainder.
RECURSIVE SplitN(_, _, _)
SplitN(s, sep, n) ==
    LET i == IndexFrom(s, sep, 1)
    IN  IF n = 1 \/ i = 0 THEN <<s>>
        ELSE <<SubSeq(s, 1, i - 1)>>
                 \o SplitN(SubSeq(s, i + 1, Len(s)), sep, n - 1)

\* strings.Split(s, sep)
Split(s, sep) == SplitN(s, sep, -1)

\* strings.Join(elems, sep)
RECURSIVE Join(_, _)
Join(elems, sep) ==
    IF elems = <<>> THEN <<>>
    ELSE IF Len(elems) = 1 THEN elems[1]
    ELSE elems[1] \o <<sep>> \o Join(Tail(elems), sep)

\* strings.Contains(s, substr)
Contains(s, substr) ==
    \E i \in 0..(Len(s) - Len(substr)) :
        SubSeq(s, i + 1, i + Len(substr)) = substr

----------------------------------------------------------------------------
(* add_headers: http.Header (a map from header name to a list of values)   *)
(* against Terraform's map of strings.  A Terraform map value is           *)
(* interface{}: [type, val].                                               *)

StringValue(s) == [type |-> "string", val |-> s]

\* The map, or nil (<<>>) when the header map is nil.
flattenTeamsAddHeaders(settings) ==
    IF settings = <<>> THEN <<>>
    ELSE LET h == settings[1]
         IN  <<[name \in DOMAIN h |-> StringValue(Join(h[name], ","))]>>

\* Entries whose value is not a string are skipped.
inflateTeamsAddHeaders(settingsMap) ==
    LET keys == {key \in DOMAIN settingsMap : settingsMap[key].type = "string"}
    IN  [key \in keys |-> Split(settingsMap[key].val, ",")]

----------------------------------------------------------------------------
(* The add_headers pair on its own.                                        *)

MaxValueLen == 2

MaxValues == 2

HeaderNames == {"X-A", "X-B"}

HeaderChars == {"a", ","}

SeqsUpTo(S, n) == UNION {[1..k -> S] : k \in 0..n}

HeaderValues == SeqsUpTo(HeaderChars, MaxValueLen)

HeaderValueLists == SeqsUpTo(HeaderValues, MaxValues)

\* Every non-nil http.Header over the names.
Headers == UNION {[names -> HeaderValueLists] : names \in SUBSET HeaderNames}

HdrIdle == [pc |-> "idle"]

InitHeaders ==
    /\ \E h \in Headers : hdr = [pc |-> "input", h |-> h]
    /\ hashOf = <<>>
    /\ prec = PrecIdle
    /\ d = <<>>
    /\ last = <<>>

\* Read's side: the API's headers, flattened for the Terraform state.
Flatten ==
    /\ hdr.pc = "input"
    /\ hdr' = [pc |-> "flattened", h |-> hdr.h,
               flat |-> flattenTeamsAddHeaders(<<hdr.h>>)]
    /\ UNCHANGED <<d, last, hashOf, prec>>

\* Create's and Update's side: the Terraform map, inflated for the API.
Inflate ==
    /\ hdr.pc = "flattened"
    /\ hdr' = [pc |-> "inflated", h |-> hdr.h, flat |-> hdr.flat,
               back |-> inflateTeamsAddHeaders(hdr.flat[1])]
    /\ UNCHANGED <<d, last, hashOf, prec>>

NextHeaders == Flatten \/ Inflate

SpecHeaders == InitHeaders /\ [][NextHeaders]_vars

\* C10: flatten and inflate of add_headers are inverse: inflating the
\* flattened form of any non-nil header map gives the header map back.
C10_InflateInvertsFlatten ==
    hdr.pc = "inflated" => hdr.back = hdr.h

\* The header maps every value list of which is non-empty and holds no
\* comma.
CommaFree(h) ==
    \A name \in DOMAIN h :
        /\ h[name] # <<>>
        /\ \A i \in 1..Len(h[name]) : IndexFrom(h[name][i], ",", 1) = 0

\* On those the pair is inverse.
C10_InverseWhenCommaFree ==
    (hdr.pc = "inflated" /\ CommaFree(hdr.h)) => hdr.back = hdr.h

----------------------------------------------------------------------------
(* The rule settings: Terraform's list-of-one-map against the API's        *)
(* struct.  A time.Duration is counted in seconds; ParseDuration and       *)
(* Duration.String are the library's, tabulated on the strings used here.  *)

ParseDuration(s) ==
    CASE s = "24h" -> [ok |-> TRUE, dur |-> 24 * 3600]
      [] s = "24h0m0s" -> [ok |-> TRUE, dur |-> 24 * 3600]
      [] s = "1h0m0s" -> [ok |-> TRUE, dur |-> 3600]
      [] OTHER -> [ok |-> FALSE, dur |-> 0]

DurationString(dur) ==
    CASE dur = 24 * 3600 -> "24h0m0s"
      [] dur = 3600 -> "1h0m0s"
      [] OTHER -> "0s"

flattenTeamsL4Override(settings) ==
    IF settings = <<>> THEN <<>>
    ELSE <<[ip |-> settings[1].IP, port |-> settings[1].Port]>>

inflateTeamsL4Override(settingsList) ==
    IF Len(settingsList) # 1 THEN <<>>
    ELSE <<[IP |-> settingsList[1].ip, Port |-> settingsList[1].port]>>

flattenTeamsRuleBisoAdminControls(settings) ==
    IF settings = <<>> THEN <<>>
    ELSE <<[disable_printing |-> settings[1].DisablePrinting,
            disable_copy_paste |-> settings[1].DisableCopyPaste,
            disable_download |-> settings[1].DisableDownload,
            disable_upload |-> settings[1].DisableUpload,
            disable_keyboard |-> settings[1].DisableKeyboard]>>

inflateTeamsRuleBisoAdminControls(settingsList) ==
    IF Len(settingsList) # 1 THEN <<>>
    ELSE <<[DisablePrinting |-> settingsList[1].disable_printing,
            DisableCopyPaste |-> settingsList[1].disable_copy_paste,
            DisableDownload |-> settingsList[1].disable_download,
            DisableUpload |-> settingsList[1].disable_upload,
            DisableKeyboard |-> settingsList[1].disable_keyboard]>>

flattenTeamsCheckSessionSettings(settings) ==
    IF settings = <<>> THEN <<>>
    ELSE <<[enforce |-> settings[1].Enforce,
            duration |-> DurationString(settings[1].Duration)]>>

inflateTeamsCheckSessionSettings(settingsList) ==
    IF Len(settingsList) # 1 THEN <<>>
    ELSE LET parsed == ParseDuration(settingsList[1].duration)
         IN  IF ~parsed.ok THEN <<>>
             ELSE <<[Enforce |-> settingsList[1].enforce,
                     Duration |-> parsed.dur]>>

flattenTeamsRuleSettings(settings) ==
    <<[block_page_enabled |-> settings.BlockPageEnabled,
       block_page_reason |-> settings.BlockReason,
       override_ips |-> settings.OverrideIPs,
       override_host |-> settings.OverrideHost,
       l4override |-> flattenTeamsL4Override(settings.L4Override),
       biso_admin_controls |->
           flattenTeamsRuleBisoAdminControls(settings.BISOAdminControls),
       check_session |->
           flattenTeamsCheckSessionSettings(settings.CheckSession),
       add_headers |-> flattenTeamsAddHeaders(settings.AddHeaders),
       insecure_disable_dnssec_validation |->
           settings.InsecureDisableDNSSECValidation]>>

\* What d.Get hands out for a map attribute: the map, empty when none is set.
GetMap(m) == IF m = <<>> THEN <<>> ELSE m[1]

\* The settings struct, or nil (<<>>) unless the list has exactly one element.
inflateTeamsRuleSettings(settingsList) ==
    IF Len(settingsList) # 1 THEN <<>>
    ELSE LET settingsMap == settingsList[1]
         IN  <<[BlockPageEnabled |-> settingsMap.block_page_enabled,
                BlockReason |-> settingsMap.block_page_reason,
                OverrideIPs |-> settingsMap.override_ips,
                OverrideHost |-> settingsMap.override_host,
                L4Override |-> inflateTeamsL4Override(settingsMap.l4override),
                BISOAdminControls |->
                    inflateTeamsRuleBisoAdminControls(
                        settingsMap.biso_admin_controls),
                CheckSession |->
                    inflateTeamsCheckSessionSettings(settingsMap.check_session),
                AddHeaders |->
                    <<inflateTeamsAddHeaders(GetMap(settingsMap.add_headers))>>,
                InsecureDisableDNSSECValidation |->
                    settingsMap.insecure_disable_dnssec_validation]>>

\* The zero value of cloudflare.TeamsRuleSettings.
ZeroRuleSettings ==
    [BlockPageEnabled |-> FALSE, BlockReason |-> "", OverrideIPs |-> <<>>,
     OverrideHost |-> "", L4Override |-> <<>>, BISOAdminControls |-> <<>>,
     CheckSession |-> <<>>, AddHeaders |-> <<>>,
     InsecureDisableDNSSECValidation |-> FALSE]

----------------------------------------------------------------------------
(* The resource data d (schema.ResourceData) and the external client.      *)

\* A resource with no ID and every attribute at its zero value.
EmptyData ==
    [id |-> <<>>, account_id |-> <<>>, name |-> "", description |-> "",
     precedence |-> FromNat(0), enabled |-> FALSE, action |-> "",
     filters |-> <<>>, traffic |-> "", identity |-> "",
     device_posture |-> "", version |-> FromNat(0), rule_settings |-> <<>>]

\* An error is nil (<<>>) or <<message>>.
NoError == <<>>

SentinelMsg == <<"i", "n", "v", "a", "l", "i", "d", " ", "r", "u", "l", "e", " ", "i", "d">>

\* Messages of the client's errors: the sentinel alone, the sentinel inside
\* a longer message, and two that do not contain it.
ClientErrors ==
    {<<SentinelMsg>>,
     <<<<"4", "0", "0", ":", " ", "i", "n", "v", "a", "l", "i", "d", " ", "r", "u", "l", "e", " ", "i", "d", ".">>>>,
     <<<<"r", "u", "l", "e", " ", "n", "o", "t", " ", "f", "o", "u", "n", "d">>>>,
     <<<<"I", "n", "v", "a", "l", "i", "d", " ", "R", "u", "l", "e", " ", "I", "D">>>>}

\* A handler's result: nil (<<>>) or an error that wraps its cause under a
\* context.
NoDiag == <<>>

DiagFromErr(context, cause) == <<[context |-> context, cause |-> cause]>>

\* One call of the client as the handler made it: the method, its
\* arguments, what the client answered and the resource data at the call.
ClientCall(method, accountID, id, payload, resp, before) ==
    [method |-> method, accountID |-> accountID, id |-> id,
     payload |-> payload, resp |-> resp, before |-> before]

IsSentinel(err) == err # NoError /\ Contains(err[1], SentinelMsg)

\* Read's assignments from the rule it found (lines 44-76).  d.Set of a
\* value of the attribute's type does not fail.
SetFromRule(data, rule) ==
    [data EXCEPT
        !.name = rule.Name,
        !.description = rule.Description,
        !.precedence = apiToProviderRulePrecedence(rule.Precedence, rule.Name),
        !.enabled = rule.Enabled,
        !.action = rule.Action,
        !.filters = rule.Filters,
        !.traffic = rule.Traffic,
        !.identity = rule.Identity,
        !.device_posture = rule.DevicePosture,
        !.version = ToInt64(rule.Version),
        !.rule_settings = flattenTeamsRuleSettings(rule.RuleSettings)]

\* Read, recognising the sentinel only as the whole message.
Read_SentinelAsWholeMessage(data, look) ==
    LET call == ClientCall("TeamsRule", data.account_id, data.id, <<>>, look,
                           data)
    IN  IF look.err # NoError
        THEN IF look.err[1] = SentinelMsg
             THEN [d |-> [data EXCEPT !.id = <<>>], ret |-> NoDiag,
                   calls |-> <<call>>]
             ELSE [d |-> data,
                   ret |-> DiagFromErr("error finding Teams Rule", look.err),
                   calls |-> <<call>>]
        ELSE [d |-> SetFromRule(data, look.rule), ret |-> NoDiag,
              calls |-> <<call>>]

\* Read, looking the rule up a second time after a non-sentinel error.
Read_RetriesLookup(data, look) ==
    LET call == ClientCall("TeamsRule", data.account_id, data.id, <<>>, look,
                           data)
    IN  IF look.err # NoError
        THEN IF Contains(look.err[1], SentinelMsg)
             THEN [d |-> [data EXCEPT !.id = <<>>], ret |-> NoDiag,
                   calls |-> <<call>>]
             ELSE [d |-> data,
                   ret |-> DiagFromErr("error finding Teams Rule", look.err),
                   calls |-> <<call, call>>]
        ELSE [d |-> SetFromRule(data, look.rule), ret |-> NoDiag,
              calls |-> <<call>>]

\* Read, clearing the ID on every lookup error before it reports it.
Read_ClearsIDOnAnyError(data, look) ==
    LET call == ClientCall("TeamsRule", data.account_id, data.id, <<>>, look,
                           data)
    IN  IF look.err # NoError
        THEN IF Contains(look.err[1], SentinelMsg)
             THEN [d |-> [data EXCEPT !.id = <<>>], ret |-> NoDiag,
                   calls |-> <<call>>]
             ELSE [d |-> [data EXCEPT !.id = <<>>],
                   ret |-> DiagFromErr("error finding Teams Rule", look.err),
                   calls |-> <<call>>]
        ELSE [d |-> SetFromRule(data, look.rule), ret |-> NoDiag,
              calls |-> <<call>>]

resourceCloudflareTeamsRuleRead(data, look) ==
    LET accountID == data.account_id
        call == ClientCall("TeamsRule", accountID, data.id, <<>>, look, data)
    IN  IF look.err # NoError
        THEN IF Contains(look.err[1], SentinelMsg)
             THEN [d |-> [data EXCEPT !.id = <<>>], ret |-> NoDiag,
                   calls |-> <<call>>]
             ELSE [d |-> data,
                   ret |-> DiagFromErr("error finding Teams Rule", look.err),
                   calls |-> <<call>>]
        ELSE [d |-> SetFromRule(data, look.rule), ret |-> NoDiag,
              calls |-> <<call>>]

\* The rule Create and Update build from the resource data (lines 84-108,
\* 124-149).
TeamsRuleFromData(data, id) ==
    LET settings == inflateTeamsRuleSettings(data.rule_settings)
        ruleName == data.name
        apiPrecedence == providerToApiRulePrecedence(data.precedence, ruleName)
    IN  [ID |-> id, Name |-> ruleName, Description |-> data.description,
         Precedence |-> ToUint64(apiPrecedence), Enabled |-> data.enabled,
         Action |-> data.action, Filters |-> data.filters,
         Traffic |-> data.traffic, Identity |-> data.identity,
         DevicePosture |-> data.device_posture,
         Version |-> ToUint64(data.version),
         RuleSettings |-> IF settings # <<>> THEN settings[1]
                          ELSE ZeroRuleSettings]

resourceCloudflareTeamsRuleCreate(data, created, look) ==
    LET accountID == data.account_id
        newTeamsRule == TeamsRuleFromData(data, <<>>)
        call == ClientCall("TeamsCreateRule", accountID, <<>>, newTeamsRule,
                           created, data)
    IN  IF created.err # NoError
        THEN [d |-> data,
              ret |-> DiagFromErr("error creating Teams rule for account",
                                  created.err),
              calls |-> <<call>>]
        ELSE LET read == resourceCloudflareTeamsRuleRead(
                             [data EXCEPT !.id = created.rule.ID], look)
             IN  [d |-> read.d, ret |-> read.ret,
                  calls |-> <<call>> \o read.calls]

\* Update, taking the resource ID from the update's response before the
\* read-back.
Update_ReadsReturnedID(data, updated, look) ==
    LET teamsRule == TeamsRuleFromData(data, data.id)
        call == ClientCall("TeamsUpdateRule", data.account_id, teamsRule.ID,
                           teamsRule, updated, data)
    IN  IF updated.err # NoError
        THEN [d |-> data,
              ret |-> DiagFromErr("error updating Teams rule for account",
                                  updated.err),
              calls |-> <<call>>]
        ELSE IF updated.rule.ID = <<>>
        THEN [d |-> data,
              ret |-> DiagFromErr("failed to find Teams Rule ID in update response; resource was empty",
                                  NoError),
              calls |-> <<call>>]
        ELSE LET read == resourceCloudflareTeamsRuleRead(
                             [data EXCEPT !.id = updated.rule.ID], look)
             IN  [d |-> read.d, ret |-> read.ret,
                  calls |-> <<call>> \o read.calls]

resourceCloudflareTeamsRuleUpdate(data, updated, look) ==
    LET accountID == data.account_id
        teamsRule == TeamsRuleFromData(data, data.id)
        call == ClientCall("TeamsUpdateRule", accountID, teamsRule.ID,
                           teamsRule, updated, data)
    IN  IF updated.err # NoError
        THEN [d |-> data,
              ret |-> DiagFromErr("error updating Teams rule for account",
                                  updated.err),
              calls |-> <<call>>]
        ELSE IF updated.rule.ID = <<>>
        THEN [d |-> data,
              ret |-> DiagFromErr("failed to find Teams Rule ID in update response; resource was empty",
                                  NoError),
              calls |-> <<call>>]
        ELSE LET read == resourceCloudflareTeamsRuleRead(data, look)
             IN  [d |-> read.d, ret |-> read.ret,
                  calls |-> <<call>> \o read.calls]

\* Delete, reading back whatever the client's delete answered.
Delete_IgnoresDeleteError(data, deleted, look) ==
    LET call == ClientCall("TeamsDeleteRule", data.account_id, data.id, <<>>,
                           deleted, data)
        read == resourceCloudflareTeamsRuleRead(data, look)
    IN  [d |-> read.d, ret |-> read.ret, calls |-> <<call>> \o read.calls]

resourceCloudflareTeamsRuleDelete(data, deleted, look) ==
    LET id == data.id
        accountID == data.account_id
        call == ClientCall("TeamsDeleteRule", accountID, id, <<>>, deleted,
                           data)
    IN  IF deleted.err # NoError
        THEN [d |-> data,
              ret |-> DiagFromErr("error deleting Teams Rule for account",
                                  deleted.err),
              calls |-> <<call>>]
        ELSE LET read == resourceCloudflareTeamsRuleRead(data, look)
             IN  [d |-> read.d, ret |-> read.ret,
                  calls |-> <<call>> \o read.calls]

\* Import, splitting the ID at every "/".
Import_SplitsAtEverySlash(data, look) ==
    LET attributes == Split(data.id, "/")
    IN  IF Len(attributes) # 2
        THEN [d |-> data,
              ret |-> DiagFromErr("invalid id specified, should be in format accountID/teamsRuleID",
                                  NoError),
              calls |-> <<>>]
        ELSE LET read == resourceCloudflareTeamsRuleRead(
                             [data EXCEPT !.account_id = attributes[1],
                                          !.id = attributes[2]], look)
             IN  [d |-> read.d, ret |-> NoDiag, calls |-> read.calls]

\* Import's result is ([]*ResourceData, error): ret is the error; what Read
\* returns is dropped (line 191).
resourceCloudflareTeamsRuleImport(data, look) ==
    LET attributes == SplitN(data.id, "/", 2)
    IN  IF Len(attributes) # 2
        THEN [d |-> data,
              ret |-> DiagFromErr("invalid id specified, should be in format accountID/teamsRuleID",
                                  NoError),
              calls |-> <<>>]
        ELSE LET accountID == attributes[1]
                 teamsRuleID == attributes[2]
                 read == resourceCloudflareTeamsRuleRead(
                             [data EXCEPT !.account_id = accountID,
                                          !.id = teamsRuleID], look)
             IN  [d |-> read.d, ret |-> NoDiag, calls |-> read.calls]

----------------------------------------------------------------------------
(* The inputs: what Terraform hands a handler and what the client answers. *)

\* The resource data of a planned rule (no ID yet).
ConfigPlain ==
    [EmptyData EXCEPT
        !.account_id = <<"a", "c">>, !.name = "allow-dns",
        !.description = "allow resolver", !.precedence = Dec(<<1>>),
        !.enabled = TRUE, !.action = "allow", !.filters = <<"dns">>,
        !.traffic = "any(dns.domains[*] == \"example.com\")"]

ConfigWithSettings ==
    [EmptyData EXCEPT
        !.account_id = <<"a", "c">>, !.name = "block-http",
        !.description = "", !.precedence = Dec(<<4, 2>>),
        !.enabled = FALSE, !.action = "block", !.filters = <<"http", "l4">>,
        !.identity = "identity.email == \"a@example.com\"",
        !.device_posture = "any(device_posture.checks.passed[*] == \"x\")",
        !.rule_settings =
            <<[block_page_enabled |-> TRUE,
               block_page_reason |-> "blocked",
               override_ips |-> <<"192.0.2.1">>,
               override_host |-> "",
               l4override |-> <<[ip |-> "192.0.2.2", port |-> 53]>>,
               biso_admin_controls |->
                   <<[disable_printing |-> TRUE, disable_copy_paste |-> FALSE,
                      disable_download |-> TRUE, disable_upload |-> FALSE,
                      disable_keyboard |-> FALSE]>>,
               check_session |-> <<[enforce |-> TRUE, duration |-> "24h"]>>,
               add_headers |->
                   <<("X-A" :> StringValue(<<"a", ",", "a">>))>>,
               insecure_disable_dnssec_validation |-> FALSE]>>]

Configs == {ConfigPlain, ConfigWithSettings}

\* The zero value of cloudflare.TeamsRule.
ZeroRule ==
    [ID |-> <<>>, Name |-> "", Description |-> "", Precedence |-> FromNat(0),
     Enabled |-> FALSE, Action |-> "", Filters |-> <<>>, Traffic |-> "",
     Identity |-> "", DevicePosture |-> "", Version |-> FromNat(0),
     RuleSettings |-> ZeroRuleSettings]

\* Rules the API holds.
ApiRulePlain ==
    [ZeroRule EXCEPT
        !.ID = <<"r", "1">>, !.Name = "allow-dns", !.Description = "allow resolver",
        !.Precedence = Dec(<<1, 9, 9, 9>>), !.Enabled = TRUE,
        !.Action = "allow", !.Filters = <<"dns">>, !.Version = Dec(<<1>>)]

ApiRuleWithSettings ==
    [ZeroRule EXCEPT
        !.ID = <<"r", "2">>, !.Name = "block-http",
        !.Precedence = Dec(<<4, 2, 8, 0, 8>>), !.Action = "block",
        !.Filters = <<"http", "l4">>, !.Version = Dec(<<7>>),
        !.RuleSettings =
            [BlockPageEnabled |-> TRUE, BlockReason |-> "blocked",
             OverrideIPs |-> <<"192.0.2.1">>, OverrideHost |-> "",
             L4Override |-> <<[IP |-> "192.0.2.2", Port |-> 53]>>,
             BISOAdminControls |->
                 <<[DisablePrinting |-> TRUE, DisableCopyPaste |-> FALSE,
                    DisableDownload |-> TRUE, DisableUpload |-> FALSE,
                    DisableKeyboard |-> FALSE]>>,
             CheckSession |-> <<[Enforce |-> TRUE, Duration |-> 3600]>>,
             AddHeaders |-> <<("X-A" :> <<<<"a">>, <<"a">>>>)>>,
             InsecureDisableDNSSECValidation |-> TRUE]]

ApiRules == {ApiRulePlain, ApiRuleWithSettings}

\* IDs in the rule a create or update call returns.
ReturnedIDs == {<<"r", "1">>, <<"r", "2">>, <<>>}

\* What the client answers: (rule, err) of TeamsRule, TeamsCreateRule and
\* TeamsUpdateRule, err of TeamsDeleteRule.
LookupResponses ==
    [err : ClientErrors, rule : {ZeroRule}]
        \cup [err : {NoError}, rule : ApiRules]

MutateResponses ==
    [err : ClientErrors, rule : {ZeroRule}]
        \cup [err : {NoError}, rule : {[ZeroRule EXCEPT !.ID = id] : id \in ReturnedIDs}]

DeleteResponses == [err : ClientErrors \cup {NoError}]

\* IDs given to terraform import.
ImportIDs ==
    {<<"a", "c", "/", "r", "1">>, <<"a", "c", "/", "r", "1", "/", "x">>, <<"a", "c", "r", "1">>, <<"/", "r", "2">>, <<"b", "/">>, <<>>}

----------------------------------------------------------------------------
(* The resource under Terraform: one action per handler.  Terraform calls  *)
(* Create for a resource with no ID, Read, Update and Delete for one with  *)
(* an ID, Import for fresh resource data holding the given ID.  last       *)
(* records the latest handler run: its resource data on entry, its result  *)
(* and the client calls it made.                                           *)

Ran(op, d0, run) ==
    [op |-> op, d0 |-> d0, ret |-> run.ret, calls |-> run.calls]

Init ==
    /\ d = EmptyData
    /\ last = [op |-> "none", d0 |-> EmptyData, ret |-> NoDiag, calls |-> <<>>]
    /\ hashOf \in HashFuns
    /\ prec = PrecIdle
    /\ hdr = HdrIdle

Create ==
    /\ d.id = <<>>
    /\ \E cfg \in Configs, created \in MutateResponses, look \in LookupResponses :
          LET run == resourceCloudflareTeamsRuleCreate(cfg, created, look)
          IN  /\ d' = run.d
              /\ last' = Ran("Create", cfg, run)
    /\ UNCHANGED <<hashOf, prec, hdr>>

Read ==
    /\ d.id # <<>>
    /\ \E look \in LookupResponses :
          LET run == resourceCloudflareTeamsRuleRead(d, look)
          IN  /\ d' = run.d
              /\ last' = Ran("Read", d, run)
    /\ UNCHANGED <<hashOf, prec, hdr>>

\* The planned attributes replace the stored ones; the ID and account stay.
Update ==
    /\ d.id # <<>>
    /\ \E cfg \in Configs, updated \in MutateResponses, look \in LookupResponses :
          LET d0 == [cfg EXCEPT !.id = d.id, !.account_id = d.account_id]
              run == resourceCloudflareTeamsRuleUpdate(d0, updated, look)
          IN  /\ d' = run.d
              /\ last' = Ran("Update", d0, run)
    /\ UNCHANGED <<hashOf, prec, hdr>>

Delete ==
    /\ d.id # <<>>
    /\ \E deleted \in DeleteResponses, look \in LookupResponses :
          LET run == resourceCloudflareTeamsRuleDelete(d, deleted, look)
          IN  /\ d' = run.d
              /\ last' = Ran("Delete", d, run)
    /\ UNCHANGED <<hashOf, prec, hdr>>

Import ==
    /\ \E importID \in ImportIDs, look \in LookupResponses :
          LET d0 == [EmptyData EXCEPT !.id = importID]
              run == resourceCloudflareTeamsRuleImport(d0, look)
          IN  /\ d' = run.d
              /\ last' = Ran("Import", d0, run)
    /\ UNCHANGED <<hashOf, prec, hdr>>

Next == Create \/ Read \/ Update \/ Delete \/ Import

Spec == Init /\ [][Next]_vars

----------------------------------------------------------------------------
(* Properties of the handlers, read off the latest handler run.            *)

\* A client call that failed, other than a lookup that failed with the
\* sentinel.
FailedNonSentinel(call) ==
    /\ call.resp.err # NoError
    /\ ~(call.method = "TeamsRule" /\ IsSentinel(call.resp.err))

MutatingMethod(op) ==
    CASE op = "Create" -> "TeamsCreateRule"
      [] op = "Update" -> "TeamsUpdateRule"
      [] op = "Delete" -> "TeamsDeleteRule"

\* C2: when Read's lookup fails with an error containing "invalid rule id",
\* Read clears the resource ID, returns no error and changes no other
\* attribute; when it fails with any other error, Read returns an error and
\* leaves the ID and every attribute unchanged.
C2_ReadOnLookupError ==
    last.op = "Read" =>
        /\ Len(last.calls) = 1
        /\ IsSentinel(last.calls[1].resp.err) =>
               /\ last.ret = NoDiag
               /\ d = [last.d0 EXCEPT !.id = <<>>]
        /\ (last.calls[1].resp.err # NoError
                /\ ~IsSentinel(last.calls[1].resp.err)) =>
               /\ last.ret # NoDiag
               /\ last.ret[1].cause = last.calls[1].resp.err
               /\ d = last.d0

\* A Read of a rule with attributes set whose lookup met the sentinel inside
\* a longer message.
C2_Witness ==
    /\ last.op = "Read"
    /\ last.calls[1].resp.err # NoError
    /\ last.calls[1].resp.err[1] # SentinelMsg
    /\ IsSentinel(last.calls[1].resp.err)
    /\ last.d0.id # <<>>
    /\ last.d0.name # ""
    /\ d.id = <<>>

\* C3: every error of the client during any operation is surfaced as an
\* error result of the operation, except the sentinel on a lookup.
C3_ClientErrorsSurfaced ==
    \A i \in DOMAIN last.calls :
        FailedNonSentinel(last.calls[i]) => last.ret # NoDiag

\* In create, read, update and delete they are surfaced, the client's error
\* as the cause.
C3_SurfacedOutsideImport ==
    last.op # "Import" =>
        \A i \in DOMAIN last.calls :
            FailedNonSentinel(last.calls[i]) =>
                /\ last.ret # NoDiag
                /\ last.ret[1].cause = last.calls[i].resp.err

\* C4: every operation is single-call: one invocation makes at most one
\* call to the client.
C4_SingleCall == Len(last.calls) <= 1

\* C4, as amended: read and import make at most one client call, a lookup;
\* create, update and delete make one mutating call and, only after it
\* succeeded, one lookup: at most two client calls.
C4_CallsPerOperation ==
    /\ last.op = "Read" =>
           Len(last.calls) = 1 /\ last.calls[1].method = "TeamsRule"
    /\ last.op = "Import" =>
           /\ Len(last.calls) <= 1
           /\ \A i \in DOMAIN last.calls : last.calls[i].method = "TeamsRule"
    /\ last.op \in {"Create", "Update", "Delete"} =>
           /\ Len(last.calls) \in 1..2
           /\ last.calls[1].method = MutatingMethod(last.op)
           /\ Len(last.calls) = 2 =>
                  /\ last.calls[1].resp.err = NoError
                  /\ last.calls[2].method = "TeamsRule"

\* A Create that made its two calls.
C4_Witness ==
    /\ last.op = "Create"
    /\ Len(last.calls) = 2
    /\ last.calls[1].method = "TeamsCreateRule"
    /\ last.calls[2].method = "TeamsRule"

\* C5: no retry or recovery: once a client call has failed with a
\* non-sentinel error the operation makes no further client call and leaves
\* the resource ID and attributes as they were immediately before the failed
\* call; a failed create leaves the resource ID empty.
C5_NoRetryNoChange ==
    /\ \A i \in DOMAIN last.calls :
           FailedNonSentinel(last.calls[i]) =>
               /\ i = Len(last.calls)
               /\ d = last.calls[i].before
    /\ (last.op = "Create" /\ last.calls[1].resp.err # NoError) =>
           d.id = <<>>

\* A Create whose create call succeeded and whose lookup then failed: the
\* ID set before the lookup stays.
C5_Witness ==
    /\ last.op = "Create"
    /\ Len(last.calls) = 2
    /\ FailedNonSentinel(last.calls[2])
    /\ d.id # <<>>
    /\ d.id = last.calls[1].resp.rule.ID

\* C6: whenever Delete returns without error the resource ID is empty.
C6_DeleteOkClearsID ==
    (last.op = "Delete" /\ last.ret = NoDiag) => d.id = <<>>

\* C6, as amended: whenever Delete returns without error, the client's
\* delete succeeded and the read-back either hit the sentinel, and then the
\* resource ID is empty, or found the rule, and then the resource ID is
\* unchanged.
C6_DeleteOkReadBack ==
    (last.op = "Delete" /\ last.ret = NoDiag) =>
        /\ Len(last.calls) = 2
        /\ last.calls[1].method = "TeamsDeleteRule"
        /\ last.calls[1].resp.err = NoError
        /\ last.calls[2].method = "TeamsRule"
        /\ \/ IsSentinel(last.calls[2].resp.err) /\ d.id = <<>>
           \/ last.calls[2].resp.err = NoError /\ d.id = last.d0.id

\* A Delete that returned without error after the read-back hit the
\* sentinel.
C6_Witness ==
    /\ last.op = "Delete"
    /\ last.ret = NoDiag
    /\ Len(last.calls) = 2
    /\ IsSentinel(last.calls[2].resp.err)
    /\ last.d0.id # <<>>
    /\ d.id = <<>>

\* The parts of an import ID around its first "/".
BeforeSlash(s) == SubSeq(s, 1, IndexFrom(s, "/", 1) - 1)

AfterSlash(s) == SubSeq(s, IndexFrom(s, "/", 1) + 1, Len(s))

\* C7: Import splits the ID at the first "/": account_id becomes the part
\* before it and the resource ID everything after it; an ID with no "/"
\* makes Import return an error without calling the client and without
\* changing account_id or the resource ID.
C7_ImportSetsBothParts ==
    last.op = "Import" =>
        IF IndexFrom(last.d0.id, "/", 1) = 0
        THEN last.ret # NoDiag /\ last.calls = <<>> /\ d = last.d0
        ELSE /\ d.account_id = BeforeSlash(last.d0.id)
             /\ d.id = AfterSlash(last.d0.id)

\* C7, as amended: the lookup is made for the part before the first "/" as
\* account and everything after it as rule ID; after Import account_id is
\* the part before and the resource ID everything after, unless the lookup
\* hit the sentinel, which clears the resource ID; an ID with no "/" makes
\* Import return an error without calling the client and without changing
\* account_id or the resource ID.
C7_ImportSplitsAtFirstSlash ==
    last.op = "Import" =>
        IF IndexFrom(last.d0.id, "/", 1) = 0
        THEN last.ret # NoDiag /\ last.calls = <<>> /\ d = last.d0
        ELSE /\ Len(last.calls) = 1
             /\ last.calls[1].method = "TeamsRule"
             /\ last.calls[1].accountID = BeforeSlash(last.d0.id)
             /\ last.calls[1].id = AfterSlash(last.d0.id)
             /\ d.account_id = BeforeSlash(last.d0.id)
             /\ d.id = IF IsSentinel(last.calls[1].resp.err) THEN <<>>
                       ELSE AfterSlash(last.d0.id)

\* An import of "ac/r1/x": the rule ID keeps the second "/".
C7_Witness ==
    /\ last.op = "Import"
    /\ last.d0.id = <<"a", "c", "/", "r", "1", "/", "x">>
    /\ d.account_id = <<"a", "c">>
    /\ d.id = <<"r", "1", "/", "x">>

\* C8: when the client's update succeeds but the returned rule has an empty
\* ID, Update returns an error, performs no read-back and leaves the ID and
\* attributes unchanged; when the returned rule has a non-empty ID, Update
\* refreshes the state from a read of the rule identified by the resource's
\* own ID.
C8_UpdateReadBack ==
    (last.op = "Update" /\ last.calls[1].resp.err = NoError) =>
        IF last.calls[1].resp.rule.ID = <<>>
        THEN /\ last.ret # NoDiag
             /\ Len(last.calls) = 1
             /\ d = last.d0
        ELSE /\ Len(last.calls) = 2
             /\ last.calls[2].method = "TeamsRule"
             /\ last.calls[2].id = last.d0.id
             /\ last.calls[2].accountID = last.d0.account_id
             /\ d.account_id = last.d0.account_id
             /\ d.id \in {last.d0.id, <<>>}
             /\ last.calls[2].resp.err = NoError =>
                    /\ last.ret = NoDiag
                    /\ d.id = last.d0.id
                    /\ d.name = last.calls[2].resp.rule.Name
                    /\ d.filters = last.calls[2].resp.rule.Filters
                    /\ d.precedence =
                           apiToProviderRulePrecedence(
                               last.calls[2].resp.rule.Precedence,
                               last.calls[2].resp.rule.Name)

\* An Update whose response names another rule than the resource's and
\* whose read-back replaced the planned name.
C8_Witness ==
    /\ last.op = "Update"
    /\ Len(last.calls) = 2
    /\ last.calls[1].resp.rule.ID # <<>>
    /\ last.calls[1].resp.rule.ID # last.d0.id
    /\ last.calls[2].resp.err = NoError
    /\ last.calls[2].id = last.d0.id
    /\ d.name # last.d0.name
    /\ d.name = last.calls[2].resp.rule.Name

====
